---- MODULE Spec2Model ----
(***************************************************************************)
(* Link analyzer: the analysis pipeline of lib/linkAnalysis (normalizeLine, *)
(* deduplication, URL classification, aggregation, topEntries) and the     *)
(* history handling of the Home page.                                      *)
(*                                                                         *)
(* A JavaScript string is a sequence of one-character strings; the empty   *)
(* string is << >>.  An optional field (T | undefined) is a sequence of    *)
(* length 0 (undefined) or 1 (the value).                                  *)
(***************************************************************************)
EXTENDS Integers, Sequences, FiniteSets, TLC

(***************************************************************************)
(* Characters and strings                                                  *)
(***************************************************************************)
LowerLetters ==
  <<"a","b","c","d","e","f","g","h","i","j","k","l","m",
    "n","o","p","q","r","s","t","u","v","w","x","y","z">>

UpperLetters ==
  <<"A","B","C","D","E","F","G","H","I","J","K","L","M",
    "N","O","P","Q","R","S","T","U","V","W","X","Y","Z">>

DigitChars == <<"0","1","2","3","4","5","6","7","8","9">>

Range(f) == { f[i] : i \in DOMAIN f }

LowerSet == Range(LowerLetters)
UpperSet == Range(UpperLetters)
DigitSet == Range(DigitChars)

LowerOf == [ c \in UpperSet |-> LowerLetters[CHOOSE i \in 1..26 : UpperLetters[i] = c] ]

DigitValue == [ c \in DigitSet |-> (CHOOSE i \in 1..10 : DigitChars[i] = c) - 1 ]

IsAlpha(c) == c \in LowerSet \/ c \in UpperSet

IsDigit(c) == c \in DigitSet

\* String.prototype.toLowerCase, on ASCII
ToLowerChar(c) == IF c \in UpperSet THEN LowerOf[c] ELSE c

ToLower(s) == [ i \in 1..Len(s) |-> ToLowerChar(s[i]) ]

\* the white space String.prototype.trim removes (ASCII part)
IsSpace(c) == c \in {" ", "\t", "\n", "\r", "\f"}

\* String.prototype.slice(n) and slice(0, n), for n >= 0
Drop(s, n) == IF n >= Len(s) THEN << >> ELSE SubSeq(s, n + 1, Len(s))

Take(s, n) == IF n >= Len(s) THEN s ELSE SubSeq(s, 1, n)

StartsWith(s, p) == Len(s) >= Len(p) /\ SubSeq(s, 1, Len(p)) = p

RECURSIVE TrimStart(_)
TrimStart(s) ==
  IF s # << >> /\ IsSpace(s[1]) THEN TrimStart(Tail(s)) ELSE s

RECURSIVE TrimEnd(_)
TrimEnd(s) ==
  IF s # << >> /\ IsSpace(s[Len(s)]) THEN TrimEnd(Take(s, Len(s) - 1)) ELSE s

\* String.prototype.trim
Trim(s) == TrimEnd(TrimStart(s))

\* the least index of a set of indexes, or otherwise when the set is empty
LeastOr(indexes, otherwise) ==
  IF indexes = {} THEN otherwise
  ELSE CHOOSE k \in indexes : \A j \in indexes : k <= j

\* String.prototype.indexOf for a one-character string, counted from 1;
\* Len(s) + 1 when ch does not occur
IndexOf(s, ch) == LeastOr({ k \in 1..Len(s) : s[k] = ch }, Len(s) + 1)

\* String.prototype.split on a single separator character
RECURSIVE SplitOn(_, _)
SplitAt(s, sep, k) ==
  IF k > Len(s) THEN <<s>>
  ELSE <<Take(s, k - 1)>> \o SplitOn(Drop(s, k), sep)

SplitOn(s, sep) == SplitAt(s, sep, IndexOf(s, sep))

\* input.split(/\r?\n/g): a line feed separates, and a carriage return
\* right before it belongs to the separator
RECURSIVE SplitLines(_)
SplitLinesAt(s, k) ==
  IF k > Len(s) THEN <<s>>
  ELSE <<Take(s, IF k > 1 /\ s[k - 1] = "\r" THEN k - 2 ELSE k - 1)>>
       \o SplitLines(Drop(s, k))

SplitLines(s) == SplitLinesAt(s, IndexOf(s, "\n"))

NonEmptyString(s) == s # << >>

None == << >>

Some(v) == <<v>>

(***************************************************************************)
(* normalizeLine                                                           *)
(***************************************************************************)
IsSchemeChar(c) == IsAlpha(c) \/ IsDigit(c) \/ c \in {"+", ".", "-"}

\* the position of the character that ends the longest run of scheme
\* characters from position i of s, or Len(s) + 1 when nothing ends it
SchemeEnd(s, i) ==
  LeastOr({ k \in i..Len(s) : ~IsSchemeChar(s[k]) }, Len(s) + 1)

\* s[k] is a colon closing a scheme that starts with a letter
ClosesScheme(s, k) == s # << >> /\ IsAlpha(s[1]) /\ k <= Len(s) /\ s[k] = ":"

\* /^[a-zA-Z][a-zA-Z0-9+.-]*:/.test(s)
hasScheme(s) == ClosesScheme(s, SchemeEnd(s, 2))

\* normalizeTrimmed that tests assumeHttps before the protocol-relative prefix
normalizeTrimmed_AssumeFirst(trimmed, assume) ==
  IF Len(trimmed) = 0 THEN << >>
  ELSE IF ~assume THEN trimmed
  ELSE IF StartsWith(trimmed, <<"/", "/">>)
    THEN <<"h","t","t","p","s",":">> \o trimmed
  ELSE IF hasScheme(trimmed) THEN trimmed
  ELSE <<"h","t","t","p","s",":","/","/">> \o trimmed

\* the body of normalizeLine after const trimmed = raw.trim()
normalizeTrimmed(trimmed, assume) ==
  IF Len(trimmed) = 0 THEN << >>
  ELSE IF StartsWith(trimmed, <<"/", "/">>)
    THEN <<"h","t","t","p","s",":">> \o trimmed
  ELSE IF ~assume THEN trimmed
  ELSE IF hasScheme(trimmed) THEN trimmed
  ELSE <<"h","t","t","p","s",":","/","/">> \o trimmed

normalizeLine(raw, assume) == normalizeTrimmed(Trim(raw), assume)

(***************************************************************************)
(* new URL(s) with no base: the WHATWG URL parser, on the strings the      *)
(* specifications below draw: ASCII letters, '.', '-', '_', '+', '=', '&', *)
(* ':', '/', '?', '#' and white space.  Digits in a host (IPv4 and ports),  *)
(* credentials ('@'), '%' escapes, '[' (IPv6), '\', the file scheme and    *)
(* "xn--" labels are outside this alphabet and are not modelled.           *)
(***************************************************************************)
\* the special schemes (file is not modelled)
SpecialSchemes ==
  { <<"h","t","t","p">>, <<"h","t","t","p","s">>, <<"f","t","p">>,
    <<"w","s">>, <<"w","s","s">> }

ForbiddenHostChars ==
  {" ", "#", "/", ":", "<", ">", "?", "@", "[", "\\", "]", "^", "|"}

IsForbiddenHostChar(c) == c \in ForbiddenHostChars

IsTabOrNewline(c) == c \in {"\t", "\n", "\r"}

NotTabOrNewline(c) == ~IsTabOrNewline(c)

\* the result of a failed parse (the constructor throws a TypeError)
UrlFailure ==
  [ok |-> FALSE, protocol |-> << >>, hostname |-> << >>, pathname |-> << >>,
   keys |-> 0, hash |-> << >>]

\* a string cut at position k: the part before it and, when k is a position
\* of s, the part after it
CutAtIndex(s, k) ==
  [before |-> Take(s, k - 1),
   after |-> IF k <= Len(s) THEN Some(Drop(s, k)) ELSE None]

\* a string cut at the first occurrence of the character ch
CutAt(s, ch) == CutAtIndex(s, IndexOf(s, ch))

\* the path percent-encode set, on the alphabet: the space
RECURSIVE EncodePath(_)
EncodePath(seg) ==
  IF seg = << >> THEN << >>
  ELSE (IF seg[1] = " " THEN <<"%", "2", "0">> ELSE <<seg[1]>>)
       \o EncodePath(Tail(seg))

\* shorten a URL's path: drop its last segment, if any
Shorten(path) == IF path = << >> THEN path ELSE Take(path, Len(path) - 1)

\* path state at the end of one segment buf; last when the input ends there
PushSegment(path, buf, last) ==
  IF buf = <<".", ".">>
    THEN IF last THEN Append(Shorten(path), << >>) ELSE Shorten(path)
  ELSE IF buf = <<".">>
    THEN IF last THEN Append(path, << >>) ELSE path
  ELSE Append(path, buf)

\* path state: the segments of a path, folded onto the URL's path list
RECURSIVE PathSegments(_, _)
PathSegments(segs, path) ==
  IF segs = << >> THEN path
  ELSE PathSegments(Tail(segs),
                    PushSegment(path, EncodePath(segs[1]), Len(segs) = 1))

\* the URL path serializer for a path list
RECURSIVE SerializePath(_)
SerializePath(path) ==
  IF path = << >> THEN << >>
  ELSE <<"/">> \o path[1] \o SerializePath(Tail(path))

\* pathname of a hierarchical URL whose text after the authority is p
PathnameOf(p, special) ==
  IF p = << >> /\ ~special THEN << >>
  ELSE SerializePath(PathSegments(
         SplitOn(IF p # << >> /\ p[1] = "/" THEN Tail(p) ELSE p, "/"), << >>))

\* the number of name/value pairs of a query string
\* (application/x-www-form-urlencoded parsing skips empty sequences)
QueryPairs(query) ==
  IF query = None THEN 0
  ELSE Len(SelectSeq(SplitOn(query[1], "&"), NonEmptyString))

RECURSIVE DropSlashes(_)
DropSlashes(s) ==
  IF s # << >> /\ s[1] = "/" THEN DropSlashes(Tail(s)) ELSE s

\* host state and port state on an authority without credentials, cut at
\* its first colon
AuthorityOf(cut, special) ==
  [ok |-> /\ ~(cut.after # None /\ cut.before = << >>)
          /\ ~(special /\ cut.before = << >>)
          /\ \A i \in 1..Len(cut.before) : ~IsForbiddenHostChar(cut.before[i])
          /\ (cut.after # None
                => \A i \in 1..Len(cut.after[1]) : IsDigit(cut.after[1][i])),
   host |-> IF special THEN ToLower(cut.before) ELSE cut.before]

ParseAuthority(auth, special) == AuthorityOf(CutAt(auth, ":"), special)

\* the URL record of a successful parse
UrlOf(scheme, hostname, pathname, query, fragment) ==
  [ok |-> TRUE,
   protocol |-> scheme \o <<":">>,
   hostname |-> hostname,
   pathname |-> pathname,
   keys |-> QueryPairs(query),
   hash |-> IF fragment = None \/ fragment = Some(<< >>)
              THEN << >> ELSE <<"#">> \o fragment[1]]

UrlWithAuthority(scheme, authority, pathname, query, fragment) ==
  IF authority.ok
    THEN UrlOf(scheme, authority.host, pathname, query, fragment)
  ELSE UrlFailure

\* authority state to path state: rest is the text after the slashes that
\* open the authority, slash the position of the first slash in it
ParseFromAuthority(scheme, special, rest, slash, query, fragment) ==
  UrlWithAuthority(scheme,
                   ParseAuthority(Take(rest, slash - 1), special),
                   PathnameOf(Drop(rest, slash - 1), special),
                   query, fragment)

ParseHierarchical(scheme, special, rest, query, fragment) ==
  ParseFromAuthority(scheme, special, rest, IndexOf(rest, "/"), query, fragment)

\* the states after the scheme: a special scheme skips any slashes and
\* reads an authority; another scheme reads one after "//", a path after
\* "/", and an opaque path otherwise
ParseAfterScheme(scheme, special, main, query, fragment) ==
  IF special
    THEN ParseHierarchical(scheme, special, DropSlashes(main), query, fragment)
  ELSE IF StartsWith(main, <<"/", "/">>)
    THEN ParseHierarchical(scheme, special, Drop(main, 2), query, fragment)
  ELSE IF StartsWith(main, <<"/">>)
    THEN UrlOf(scheme, << >>, PathnameOf(main, FALSE), query, fragment)
  ELSE UrlOf(scheme, << >>, main, query, fragment)

ParseQuery(scheme, byQuery, fragment) ==
  ParseAfterScheme(scheme, scheme \in SpecialSchemes, byQuery.before,
                   byQuery.after, fragment)

ParseFragment(scheme, byHash) ==
  ParseQuery(scheme, CutAt(byHash.before, "?"), byHash.after)

\* scheme start state and scheme state: s[k] ends the scheme characters
ParseScheme(s, k) ==
  IF ClosesScheme(s, k)
    THEN ParseFragment(ToLower(Take(s, k - 1)), CutAt(Drop(s, k), "#"))
  ELSE UrlFailure

\* the parser on its input without tabs and newlines
ParseStripped(s) == ParseScheme(s, SchemeEnd(s, 1))

ParseURL(txt) == ParseStripped(SelectSeq(Trim(txt), NotTabOrNewline))

(***************************************************************************)
(* Classification helpers                                                  *)
(***************************************************************************)
RemoveAt(s, k) == IF k > Len(s) THEN s ELSE Take(s, k - 1) \o Drop(s, k)

\* String.prototype.replace(pattern, "") for a one-character string pattern
RemoveFirst(s, ch) == RemoveAt(s, IndexOf(s, ch))

\* hostname.replace(/^www\./i, "")
WithoutWww(hostname) ==
  IF ToLower(Take(hostname, 4)) = <<"w","w","w",".">>
    THEN Drop(hostname, 4) ELSE hostname

\* the hostname without its www. prefix, and the hostname itself when that
\* leaves nothing
hostnameToDomain(hostname) ==
  IF Len(WithoutWww(hostname)) # 0 THEN WithoutWww(hostname) ELSE hostname

\* parts.length ? parts[parts.length - 1].toLowerCase() : undefined
LastPart(parts) ==
  IF Len(parts) # 0 THEN Some(ToLower(parts[Len(parts)])) ELSE None

\* domain.split(".").filter(Boolean), then the last part in lower case
domainToTld(domain) == LastPart(SelectSeq(SplitOn(domain, "."), NonEmptyString))

(***************************************************************************)
(* Record<string, number>: a plain JavaScript object used as a counter     *)
(* map.  Its own properties are kept as a sequence of [key, val] entries   *)
(* in creation order.  It inherits the properties of Object.prototype, so  *)
(* map[key] is not undefined for those keys.  A value is a number, or the  *)
(* string that + 1 makes of a non-number (n counts the "1"s appended).     *)
(***************************************************************************)
Str___proto__ == <<"_","_","p","r","o","t","o","_","_">>

ObjectPrototypeKeys ==
  { <<"c","o","n","s","t","r","u","c","t","o","r">>,
    <<"h","a","s","O","w","n","P","r","o","p","e","r","t","y">>,
    <<"i","s","P","r","o","t","o","t","y","p","e","O","f">>,
    <<"p","r","o","p","e","r","t","y","I","s","E","n","u","m","e","r","a","b","l","e">>,
    <<"t","o","L","o","c","a","l","e","S","t","r","i","n","g">>,
    <<"t","o","S","t","r","i","n","g">>,
    <<"v","a","l","u","e","O","f">>,
    <<"_","_","d","e","f","i","n","e","G","e","t","t","e","r","_","_">>,
    <<"_","_","d","e","f","i","n","e","S","e","t","t","e","r","_","_">>,
    <<"_","_","l","o","o","k","u","p","G","e","t","t","e","r","_","_">>,
    <<"_","_","l","o","o","k","u","p","S","e","t","t","e","r","_","_">>,
    <<"_","_","p","r","o","t","o","_","_">> }

NumberValue(n) == [kind |-> "number", n |-> n]

StringValue(n) == [kind |-> "string", n |-> n]

EmptyObject == << >>

HasOwn(map, key) == \E i \in 1..Len(map) : map[i].key = key

OwnIndex(map, key) == CHOOSE i \in 1..Len(map) : map[i].key = key

\* cur + 1: a number plus one, a string with "1" appended
Increment(cur) ==
  IF cur.kind = "number" THEN NumberValue(cur.n + 1) ELSE StringValue(cur.n + 1)

\* (map[key] ?? 0) + 1
PlusOne(map, key) ==
  IF HasOwn(map, key) THEN Increment(map[OwnIndex(map, key)].val)
  ELSE IF key \in ObjectPrototypeKeys THEN StringValue(1)
  ELSE NumberValue(1)

\* map[key] = value: the __proto__ setter ignores a primitive, any other
\* key becomes (or stays) an own property
SetProperty(map, key, value) ==
  IF key = Str___proto__ THEN map
  ELSE IF HasOwn(map, key)
    THEN [map EXCEPT ![OwnIndex(map, key)].val = value]
  ELSE Append(map, [key |-> key, val |-> value])

inc(map, key) == SetProperty(map, key, PlusOne(map, key))

\* a canonical array index: "0", or digits without a leading zero
\* (below 2^32 - 1, which no key of the bounded inputs reaches)
IsArrayIndex(key) ==
  /\ key # << >>
  /\ \A i \in 1..Len(key) : IsDigit(key[i])
  /\ (Len(key) > 1 => key[1] # "0")

RECURSIVE ToNumber(_)
ToNumber(digits) ==
  IF digits = << >> THEN 0
  ELSE 10 * ToNumber(Take(digits, Len(digits) - 1)) + DigitValue[digits[Len(digits)]]

\* insertion of a [rank, item] pair into a list sorted by ascending rank,
\* after the pairs of equal rank
RECURSIVE InsertSorted(_, _)
InsertSorted(sorted, e) ==
  IF sorted = << >> THEN <<e>>
  ELSE IF e.rank < sorted[1].rank THEN <<e>> \o sorted
  ELSE <<sorted[1]>> \o InsertSorted(Tail(sorted), e)

\* a stable sort by ascending rank (Array.prototype.sort is stable)
RECURSIVE StableSort(_)
StableSort(s) ==
  IF s = << >> THEN << >>
  ELSE InsertSorted(StableSort(Take(s, Len(s) - 1)), s[Len(s)])

Items(ranked) == [ i \in 1..Len(ranked) |-> ranked[i].item ]

IsIndexEntry(e) == IsArrayIndex(e.key)

IsNameEntry(e) == ~IsArrayIndex(e.key)

\* the entries whose keys are array indexes, in ascending numeric order
IndexEntries(indexed) ==
  Items(StableSort([ i \in 1..Len(indexed) |->
                       [rank |-> ToNumber(indexed[i].key), item |-> indexed[i]] ]))

\* Object.entries(map): array-index keys in ascending numeric order, then
\* the other keys in creation order
ObjectEntries(map) ==
  IndexEntries(SelectSeq(map, IsIndexEntry)) \o SelectSeq(map, IsNameEntry)

KeysOf(entries) == [ i \in 1..Len(entries) |-> entries[i].key ]

ObjectKeys(map) == KeysOf(ObjectEntries(map))

(***************************************************************************)
(* State                                                                   *)
(***************************************************************************)
VARIABLES
  text,      \* analyzeLinks: the input argument
  opts,      \* analyzeLinks: the options argument
  report,    \* analyzeLinks: the LinkAnalysis returned, once it has returned
  nextId,    \* safeId: identifiers are unique; the next one not yet given
  clock,     \* new Date(): the current instant
  nlRaw,     \* normalizeLine: the raw argument
  nlAssume,  \* normalizeLine: the assumeHttps argument
  nlResult,  \* normalizeLine: the string returned, once it has returned
  teMap,     \* topEntries: the map argument
  teLimit,   \* topEntries: the limit argument
  teResult,  \* topEntries: the entries returned, once it has returned
  input,       \* Home: useState("")
  assumeHttps, \* Home: useState(true)
  dedupe,      \* Home: useState(true)
  analysis,    \* Home: useState<LinkAnalysis | null>(null)
  history,     \* Home: useState<LinkAnalysis[]>([])
  storage,     \* localStorage: the item stored under HISTORY_KEY
  page,        \* Home: "mounted", "unmounted", or "crashed" when a render threw
  effect,      \* the load effect: "pending", "returned" early, or "registered"
  microtask,   \* the callback the load effect queued, until it has run
  cancelled,   \* the load effect's cancelled flag
  chartMounted,  \* EChart: the component is mounted
  option,        \* EChart: the option prop of the last render
  optionRef,     \* EChart: optionRef.current
  chartRef,      \* EChart: chartRef.current, the chart with the option set on it
  disposed,      \* EChart: the disposed flag of the init effect
  importing,     \* EChart: import("echarts"): "idle", "pending" or "resolved"
  effects,       \* EChart: the effects of the last commit that have yet to run
  observer,      \* EChart: a ResizeObserver observes the container
  resized,       \* EChart: the number of times the container was resized
  changes        \* EChart: the number of times the option prop changed


(***************************************************************************)
(* analyzeLinks                                                            *)
(***************************************************************************)
\* Map.prototype.set: a key already in the map keeps its position and takes
\* the new value
MapSet(map, e) ==
  IF \E i \in 1..Len(map) : map[i].key = e.key
    THEN [map EXCEPT ![CHOOSE i \in 1..Len(map) : map[i].key = e.key].val = e.val]
  ELSE Append(map, e)

\* new Map(entries): a repeated key keeps its first position and takes the
\* last value
RECURSIVE NewMap(_, _)
NewMap(entries, map) ==
  IF entries = << >> THEN map
  ELSE NewMap(Tail(entries), MapSet(map, entries[1]))

MapValues(map) == [ i \in 1..Len(map) |-> map[i].val ]

TrimAll(split) == [ i \in 1..Len(split) |-> Trim(split[i]) ]

\* InputLines without its filter of the empty lines
InputLines_NoFilter(txt) == TrimAll(SplitLines(txt))

\* the lines of the input: split, trimmed, the empty ones dropped
InputLines(txt) == SelectSeq(TrimAll(SplitLines(txt)), NonEmptyString)

NormalizedList(lines, assume) ==
  [ i \in 1..Len(lines) |->
      [raw |-> lines[i], normalized |-> normalizeLine(lines[i], assume)] ]

\* Unique with a repeated key moved to the position of its last occurrence
Unique_LastPosition(normalizedList, dedup) ==
  IF dedup
    THEN LET key(i) == ToLower(normalizedList[i].normalized)
             IsLast(i) == \A j \in (i + 1)..Len(normalizedList) : key(j) # key(i)
             RECURSIVE Keep(_)
             Keep(i) == IF i > Len(normalizedList) THEN << >>
                        ELSE (IF IsLast(i) THEN <<normalizedList[i]>> ELSE << >>)
                             \o Keep(i + 1)
         IN Keep(1)
  ELSE normalizedList

Unique(normalizedList, dedup) ==
  IF dedup
    THEN MapValues(NewMap([ i \in 1..Len(normalizedList) |->
                              [key |-> ToLower(normalizedList[i].normalized),
                               val |-> normalizedList[i]] ],
                          << >>))
  ELSE normalizedList

\* the message of the TypeError the URL constructor throws
InvalidUrlMessage == "Invalid URL"

\* const base: LinkRow
BaseRow(it, id) ==
  [id |-> id, raw |-> it.raw, normalized |-> it.normalized,
   isValid |-> FALSE, error |-> None, protocol |-> None,
   hostname |-> None, domain |-> None, tld |-> None,
   pathname |-> None, queryParams |-> 0, hasHash |-> FALSE,
   length |-> Len(it.normalized)]

\* InvalidRow that returns the base row without the message
InvalidRow_NoError(base) == base

\* the catch branch: the base row with the error message
InvalidRow(base) == [base EXCEPT !.error = Some(InvalidUrlMessage)]

\* const hostname = url.hostname || undefined
HostnameOf(url) == IF url.hostname # << >> THEN Some(url.hostname) ELSE None

\* const domain = hostname ? hostnameToDomain(hostname) : undefined
DomainOf(hostname) ==
  IF hostname # None /\ hostname[1] # << >>
    THEN Some(hostnameToDomain(hostname[1])) ELSE None

\* const tld = domain ? domainToTld(domain) : undefined
TldOf(domain) ==
  IF domain # None /\ domain[1] # << >> THEN domainToTld(domain[1]) ELSE None

\* the try branch: the row of a URL that parsed
ValidRow(base, url, hostname, domain) ==
  [base EXCEPT
     !.isValid = TRUE,
     !.protocol = Some(RemoveFirst(url.protocol, ":")),
     !.hostname = hostname,
     !.domain = domain,
     !.tld = TldOf(domain),
     !.pathname = Some(url.pathname),
     !.queryParams = url.keys,
     !.hasHash = (url.hash # << >> /\ Len(url.hash) > 1)]

RowOfHost(base, url, hostname) == ValidRow(base, url, hostname, DomainOf(hostname))

RowOf(base, url) ==
  IF url.ok THEN RowOfHost(base, url, HostnameOf(url)) ELSE InvalidRow(base)

\* one row: the body of unique.map(...)
LinkRowOf(it, id) == RowOf(BaseRow(it, id), ParseURL(it.normalized))

\* a field of a row is truthy: present and not the empty string
Truthy(o) == o # None /\ o[1] # << >>

EmptyTotals ==
  [valid |-> 0, invalid |-> 0, withQuery |-> 0, withHash |-> 0, lengthSum |-> 0,
   protocolDist |-> EmptyObject, domainDist |-> EmptyObject, tldDist |-> EmptyObject]

\* Tally with the else of "if (it.isValid) valid += 1; else invalid += 1" lost
Tally_InvalidAlways(acc, it) ==
  [acc EXCEPT !.valid = IF it.isValid THEN @ + 1 ELSE @,
              !.invalid = @ + 1,
              !.lengthSum = @ + it.length]

\* one turn of the loop for (const it of items)
Tally(acc, it) ==
  [valid |-> IF it.isValid THEN acc.valid + 1 ELSE acc.valid,
   invalid |-> IF it.isValid THEN acc.invalid ELSE acc.invalid + 1,
   withQuery |-> IF it.queryParams > 0 THEN acc.withQuery + 1 ELSE acc.withQuery,
   withHash |-> IF it.hasHash THEN acc.withHash + 1 ELSE acc.withHash,
   lengthSum |-> acc.lengthSum + it.length,
   protocolDist |-> IF Truthy(it.protocol) THEN inc(acc.protocolDist, it.protocol[1])
                    ELSE acc.protocolDist,
   domainDist |-> IF Truthy(it.domain) THEN inc(acc.domainDist, ToLower(it.domain[1]))
                  ELSE acc.domainDist,
   tldDist |-> IF Truthy(it.tld) THEN inc(acc.tldDist, it.tld[1]) ELSE acc.tldDist]

RECURSIVE Aggregate(_, _)
Aggregate(items, acc) ==
  IF items = << >> THEN acc
  ELSE Aggregate(Tail(items), Tally(acc, items[1]))

RECURSIVE Gcd(_, _)
Gcd(a, b) == IF b = 0 THEN a ELSE Gcd(b, a % b)

\* the number a / b (b > 0), as a fraction in lowest terms
Quotient(a, b) == [num |-> a \div Gcd(a, b), den |-> b \div Gcd(a, b)]

Zero == [num |-> 0, den |-> 1]

\* unique.map(...): the rows take the identifiers firstId, firstId + 1, ...
Rows(unique, firstId) ==
  [ i \in 1..Len(unique) |-> LinkRowOf(unique[i], firstId + i - 1) ]

\* the object analyzeLinks returns, from its rows and the totals of the loop
ReportOf(txt, items, acc, id, now) ==
  [id |-> id,
   createdAt |-> now,
   input |-> txt,
   items |-> items,
   metrics |-> [total |-> Len(items),
                valid |-> acc.valid,
                invalid |-> acc.invalid,
                uniqueDomains |-> Len(ObjectKeys(acc.domainDist)),
                withQuery |-> acc.withQuery,
                withHash |-> acc.withHash,
                avgLength |-> IF Len(items) # 0
                                THEN Quotient(acc.lengthSum, Len(items))
                              ELSE Zero],
   distributions |-> [protocol |-> acc.protocolDist,
                      domain |-> acc.domainDist,
                      tld |-> acc.tldDist]]

\* the loop over the rows, then the report; the report takes the identifier
\* after those of its rows
ReportOfRows(txt, items, firstId, now) ==
  ReportOf(txt, items, Aggregate(items, EmptyTotals), firstId + Len(items), now)

\* analyzeLinks with its environment explicit.  The identifiers safeId
\* returns are unique; now is the instant new Date() reads
analyzeLinksAt(txt, options, firstId, now) ==
  ReportOfRows(txt,
               Rows(Unique(NormalizedList(InputLines(txt), options.assumeHttps),
                           options.dedupe),
                    firstId),
               firstId, now)

analyzeLinks(txt, options) == analyzeLinksAt(txt, options, nextId, clock)

\* entries sorted by descending count, stably: sort((a, b) => b[1] - a[1])
ByCountDescending(entries) ==
  Items(StableSort([ i \in 1..Len(entries) |->
                       [rank |-> 0 - entries[i].val.n, item |-> entries[i]] ]))

\* topEntries sorting by a[1] - b[1]
topEntries_Ascending(map, limit) ==
  Take(Items(StableSort([ i \in 1..Len(map) |->
                            [rank |-> ObjectEntries(map)[i].val.n,
                             item |-> ObjectEntries(map)[i]] ])),
       limit)

\* Object.entries(map).sort((a, b) => b[1] - a[1]).slice(0, limit),
\* for a map whose values are numbers
topEntries(map, limit) == Take(ByCountDescending(ObjectEntries(map)), limit)

(***************************************************************************)
(* Specification of the pipeline: analyzeLinks applied to an input text    *)
(* and an option combination.  The texts are every string of at most       *)
(* MaxTextLen characters of TextAlphabet, and the sample texts.            *)
(***************************************************************************)
MaxTextLen == 4

TextAlphabet == {"a", "A", ".", ":", "/", " ", "\n"}

Sample_Scenario ==
  <<"h","t","t","p","s",":","/","/","v","e","r","c","e","l",".","c","o","m","\n","n","e","x","t","j","s",".","o","r","g","/","d","o","c","s","\n","n","o","t","a","-","u","r","l">>

Sample_CaseTwins ==
  <<"E","x","a","m","p","l","e",".","c","o","m","\n","e","x","a","m","p","l","e",".","c","o","m">>

Sample_Query ==
  <<"h","t","t","p",":","/","/","e","x","a","m","p","l","e",".","c","o","m","/","p","a","t","h","?","a","=","1","&","a","=","2","#","t","o","p">>

Sample_Www ==
  <<"h","t","t","p","s",":","/","/","w","w","w",".","E","x","a","m","p","l","e",".","c","o","m","/","x","\r","\n","\r","\n","W","W","W",".","e","x","a","m","p","l","e",".","c","o","m">>

Sample_Mailto ==
  <<"m","a","i","l","t","o",":","s","o","m","e","o","n","e","\n","e","x","a","m","p","l","e",".","c","o","m","\n","h","t","t","p",":","/","/">>

Sample_ProtocolRelative ==
  <<" "," ","/","/","c","d","n",".","e","x","a","m","p","l","e",".","c","o","m","/","a","s","s","e","t","s","/","a","p","p",".","j","s"," ","\n","\t","\n">>

Sample_Proto ==
  <<"_","_","p","r","o","t","o","_","_","\n","e","x","a","m","p","l","e",".","c","o","m">>

Sample_Constructor ==
  <<"c","o","n","s","t","r","u","c","t","o","r","\n","c","o","n","s","t","r","u","c","t","o","r","/","x">>

Sample_Interleaved ==
  <<"b",".","c","o","m","\n","A",".","c","o","m","\n","a",".","c","o","m","\n","B",".","c","o","m">>

SampleTexts ==
  { Sample_Scenario, Sample_CaseTwins, Sample_Query, Sample_Www,
    Sample_Mailto, Sample_ProtocolRelative, Sample_Proto, Sample_Constructor,
    Sample_Interleaved }

StringsUpTo(alphabet, n) == UNION { [1..k -> alphabet] : k \in 0..n }

Texts == StringsUpTo(TextAlphabet, MaxTextLen) \cup SampleTexts

Options == [assumeHttps : BOOLEAN, dedupe : BOOLEAN]

pipelineVars == <<text, opts, report, nextId, clock>>

normalizeVars == <<nlRaw, nlAssume, nlResult>>

topVars == <<teMap, teLimit, teResult>>

pageVars ==
  <<input, assumeHttps, dedupe, analysis, history, storage, page, effect,
    microtask, cancelled>>

chartVars ==
  <<chartMounted, option, optionRef, chartRef, disposed, importing, effects,
    observer, resized, changes>>

vars == <<pipelineVars, normalizeVars, topVars, pageVars, chartVars>>

\* no EChart
NoChart ==
  /\ chartMounted = FALSE
  /\ option = "a"
  /\ optionRef = "a"
  /\ chartRef = << >>
  /\ disposed = FALSE
  /\ importing = "idle"
  /\ effects = << >>
  /\ observer = FALSE
  /\ resized = 0
  /\ changes = 0

\* no call of analyzeLinks, of normalizeLine, of topEntries; no page
NoPipeline ==
  /\ text = << >>
  /\ opts = [assumeHttps |-> TRUE, dedupe |-> TRUE]
  /\ report = None

NoEnvironment == nextId = 1 /\ clock = 0

NoPage ==
  /\ input = << >>
  /\ assumeHttps = TRUE
  /\ dedupe = TRUE
  /\ analysis = None
  /\ history = << >>
  /\ storage = [kind |-> "absent"]
  /\ page = "unmounted"
  /\ effect = "pending"
  /\ microtask = None
  /\ cancelled = FALSE

NoNormalize == nlRaw = << >> /\ nlAssume = TRUE /\ nlResult = None

NoTop == teMap = EmptyObject /\ teLimit = 0 /\ teResult = None

Init ==
  /\ text \in Texts
  /\ opts \in Options
  /\ report = None
  /\ nextId = 1
  /\ clock = 0
  /\ NoNormalize
  /\ NoTop
  /\ NoPage
  /\ NoChart

\* a call of analyzeLinks(text, opts) that returns
Analyze ==
  /\ report = None
  /\ report' = Some(analyzeLinks(text, opts))
  /\ nextId' = report'[1].id + 1
  /\ clock' = clock + 1
  /\ UNCHANGED <<text, opts, normalizeVars, topVars, pageVars, chartVars>>

Next == Analyze

Spec == Init /\ [][Next]_vars

(***************************************************************************)
(* Properties of the pipeline                                              *)
(***************************************************************************)
Returned == report # None

\* the report returned (read only where Returned holds)
R == report[1]

RowIndexes == 1..Len(R.items)

\* the non-blank lines the input holds, in input order, and their
\* normalized forms in lower case
Lines == InputLines(text)

LineKey(i) == ToLower(normalizeLine(Lines[i], opts.assumeHttps))

ItemKey(i) == ToLower(R.items[i].normalized)

FirstLineWithKey(key) ==
  CHOOSE i \in 1..Len(Lines) :
    LineKey(i) = key /\ \A j \in 1..(i - 1) : LineKey(j) # key

\* C1: in every report valid + invalid = total = the number of items, valid
\* counts exactly the rows with isValid true and invalid those with isValid
\* false
C1_CountsPartition ==
  Returned =>
    /\ R.metrics.valid + R.metrics.invalid = R.metrics.total
    /\ R.metrics.total = Len(R.items)
    /\ R.metrics.valid = Cardinality({ i \in RowIndexes : R.items[i].isValid })
    /\ R.metrics.invalid = Cardinality({ i \in RowIndexes : ~R.items[i].isValid })

\* C1 witness: a report that holds valid rows and invalid rows
C1_Witness ==
  /\ Returned
  /\ R.metrics.valid > 0
  /\ R.metrics.invalid > 0

\* C2 (as claimed): with dedupe, the item kept for the lines that share a
\* lower-case normalized form carries the raw text and the normalized string
\* of the first of those lines
C2_FirstOccurrenceKept ==
  (Returned /\ opts.dedupe) =>
    \A i \in RowIndexes :
      LET first == FirstLineWithKey(ItemKey(i))
      IN /\ R.items[i].raw = Lines[first]
         /\ R.items[i].normalized = normalizeLine(Lines[first], opts.assumeHttps)

\* C3: with dedupe no two items share a lower-case normalized form, every
\* lower-case normalized form of a non-blank line is the form of an item,
\* and the items are ordered by the first line having their form; without
\* dedupe the items are the non-blank lines, one to one and in order
C3_DedupeKeysAndOrder ==
  Returned =>
    IF opts.dedupe
      THEN /\ \A i, j \in RowIndexes : ItemKey(i) = ItemKey(j) => i = j
           /\ { ItemKey(i) : i \in RowIndexes } = { LineKey(i) : i \in 1..Len(Lines) }
           /\ \A i, j \in RowIndexes :
                i < j => FirstLineWithKey(ItemKey(i)) < FirstLineWithKey(ItemKey(j))
    ELSE /\ Len(R.items) = Len(Lines)
         /\ \A i \in RowIndexes :
              /\ R.items[i].raw = Lines[i]
              /\ R.items[i].normalized = normalizeLine(Lines[i], opts.assumeHttps)

\* C3 witness: a deduplicated report of several items in which the form of
\* the first item is also the form of the last line
C3_Witness ==
  /\ Returned
  /\ opts.dedupe
  /\ Len(R.items) >= 2
  /\ Len(R.items) < Len(Lines)
  /\ LineKey(Len(Lines)) = ItemKey(1)

HasDot(s) == \E i \in 1..Len(s) : s[i] = "."

\* the text after the last '.' of a string that holds one
AfterLastDot(s) ==
  LET k == CHOOSE i \in 1..Len(s) : s[i] = "." /\ \A j \in (i + 1)..Len(s) : s[j] # "."
  IN Drop(s, k)

\* C4 (as claimed): on a valid row tld is the lower-case text after the last
\* '.' of domain, and is absent when domain is absent or holds no '.'
C4_TldAfterLastDot ==
  Returned =>
    \A i \in RowIndexes :
      LET row == R.items[i]
      IN row.isValid =>
           IF row.domain = None \/ ~HasDot(row.domain[1])
             THEN row.tld = None
           ELSE row.tld = Some(ToLower(AfterLastDot(row.domain[1])))

SuccessFields(row) == <<row.protocol, row.hostname, row.domain, row.tld, row.pathname>>

AllPresent(fields) == \A k \in 1..Len(fields) : fields[k] # None

AllAbsent(fields) == \A k \in 1..Len(fields) : fields[k] = None

InvalidRowShape(row) ==
  /\ ~row.isValid
  /\ row.error # None
  /\ row.error[1] # ""
  /\ AllAbsent(SuccessFields(row))

\* C5 (as claimed): every row either is valid with no error and all of
\* protocol, hostname, domain, tld and pathname present, or is invalid with
\* a non-empty error and all five absent
C5_AllOrNothing ==
  Returned =>
    \A i \in RowIndexes :
      LET row == R.items[i]
      IN \/ row.isValid /\ row.error = None /\ AllPresent(SuccessFields(row))
         \/ InvalidRowShape(row)

\* C5 (amended): every row either is valid with no error, protocol and
\* pathname present, hostname and domain both present or both absent (absent
\* exactly when the parsed URL has an empty host) and tld absent whenever
\* domain is absent, or is invalid with a non-empty error and all five absent
C5_ValidOrError ==
  Returned =>
    \A i \in RowIndexes :
      LET row == R.items[i]
      IN \/ /\ row.isValid
            /\ row.error = None
            /\ row.protocol # None
            /\ row.pathname # None
            /\ (row.hostname # None) = (ParseURL(row.normalized).hostname # << >>)
            /\ (row.domain # None) = (row.hostname # None)
            /\ (row.domain = None => row.tld = None)
         \/ InvalidRowShape(row)

\* C5 witness: a report with a valid row without a host, a valid row with
\* all five fields and an invalid row
C5_Witness ==
  /\ Returned
  /\ \E i \in RowIndexes : R.items[i].isValid /\ R.items[i].hostname = None
  /\ \E i \in RowIndexes : R.items[i].isValid /\ AllPresent(SuccessFields(R.items[i]))
  /\ \E i \in RowIndexes : ~R.items[i].isValid

RECURSIVE SumOfCounts(_)
SumOfCounts(map) ==
  IF map = << >> THEN 0 ELSE map[1].val.n + SumOfCounts(Tail(map))

CountsAreNumbers(map) == \A i \in 1..Len(map) : map[i].val.kind = "number"

RowsWith(Field(_)) == Cardinality({ i \in RowIndexes : Field(R.items[i]) # None })

\* C7 (as claimed): uniqueDomains is the number of keys of the domain
\* distribution and the number of distinct lower-case domains of the valid
\* rows, and the counts of each distribution sum to the number of rows on
\* which its field is present
C7_DistributionsCountRows ==
  Returned =>
    LET ProtocolField(row) == row.protocol
        DomainField(row) == row.domain
        TldField(row) == row.tld
        D == R.distributions
    IN /\ R.metrics.uniqueDomains = Len(D.domain)
       /\ R.metrics.uniqueDomains =
            Cardinality({ ToLower(R.items[i].domain[1]) :
                            i \in { j \in RowIndexes :
                                      R.items[j].isValid /\ R.items[j].domain # None } })
       /\ CountsAreNumbers(D.protocol) /\ SumOfCounts(D.protocol) = RowsWith(ProtocolField)
       /\ CountsAreNumbers(D.domain) /\ SumOfCounts(D.domain) = RowsWith(DomainField)
       /\ CountsAreNumbers(D.tld) /\ SumOfCounts(D.tld) = RowsWith(TldField)

\* the text is empty or holds only blank and white-space-only lines
BlankText == \A i \in 1..Len(text) : IsSpace(text[i])

\* C10: for a blank input the report has no items, all the counts and the
\* average length are 0, the three distributions are empty and the input
\* field is the given text
C10_BlankInputEmptyReport ==
  (Returned /\ BlankText) =>
    /\ R.items = << >>
    /\ R.metrics = [total |-> 0, valid |-> 0, invalid |-> 0, uniqueDomains |-> 0,
                    withQuery |-> 0, withHash |-> 0, avgLength |-> Zero]
    /\ R.distributions = [protocol |-> << >>, domain |-> << >>, tld |-> << >>]
    /\ R.input = text

\* C10 witness: a report for a text of several white-space-only lines
C10_Witness ==
  /\ Returned
  /\ BlankText
  /\ \E i, j \in 1..Len(text) : text[i] = " " /\ text[j] = "\n"

\* the lines of the text between its line separators, as they are
VerbatimLines == SplitLines(text)

\* C12 (as claimed): the raw of every item is the text of an input line as
\* it stands between the line separators, leading and trailing white space
\* included, and its length is the number of characters of its normalized
C12_RawVerbatimAndLength ==
  Returned =>
    \A i \in RowIndexes :
      /\ \E k \in 1..Len(VerbatimLines) : R.items[i].raw = VerbatimLines[k]
      /\ R.items[i].length = Len(R.items[i].normalized)

(***************************************************************************)
(* Specification of normalizeLine: applied to every line of at most        *)
(* MaxLineLen characters of LineAlphabet and both values of assumeHttps.   *)
(***************************************************************************)
MaxLineLen == 4

LineAlphabet == {"a", "Z", "1", "+", ".", "-", ":", "/", " "}

InitNormalize ==
  /\ nlRaw \in StringsUpTo(LineAlphabet, MaxLineLen)
  /\ nlAssume \in BOOLEAN
  /\ nlResult = None
  /\ NoPipeline
  /\ NoEnvironment
  /\ NoTop
  /\ NoPage
  /\ NoChart

\* a call of normalizeLine(nlRaw, nlAssume) that returns
Normalize ==
  /\ nlResult = None
  /\ nlResult' = Some(normalizeLine(nlRaw, nlAssume))
  /\ UNCHANGED <<nlRaw, nlAssume, pipelineVars, topVars, pageVars, chartVars>>

NextNormalize == Normalize

SpecNormalize == InitNormalize /\ [][NextNormalize]_vars

\* the line without its leading and trailing white space
TrimmedLine ==
  LET solid == { i \in 1..Len(nlRaw) : nlRaw[i] \notin {" ", "\t", "\n", "\r", "\f"} }
  IN IF solid = {} THEN << >>
     ELSE SubSeq(nlRaw,
                 CHOOSE i \in solid : \A j \in solid : i <= j,
                 CHOOSE i \in solid : \A j \in solid : i >= j)

\* a string starts with a scheme: a letter, then letters, digits, '+', '.'
\* or '-', then ':'
StartsWithScheme(s) ==
  \E k \in 2..Len(s) :
    /\ s[k] = ":"
    /\ s[1] \in LowerSet \cup UpperSet
    /\ \A j \in 2..(k - 1) :
         s[j] \in LowerSet \cup UpperSet \cup DigitSet \cup {"+", ".", "-"}

\* C6: normalizeLine returns the empty string for a blank line, "https:" +
\* the trimmed line when that starts with "//", the trimmed line when
\* assumeHttps is false or it starts with a scheme, and "https://" + the
\* trimmed line otherwise
C6_NormalizeLineCases ==
  nlResult # None =>
    LET t == TrimmedLine
    IN nlResult[1] =
         IF t = << >> THEN << >>
         ELSE IF Len(t) >= 2 /\ t[1] = "/" /\ t[2] = "/"
           THEN <<"h","t","t","p","s",":">> \o t
         ELSE IF ~nlAssume \/ StartsWithScheme(t) THEN t
         ELSE <<"h","t","t","p","s",":","/","/">> \o t

\* C6 witness: a protocol-relative line with white space around it,
\* normalized with assumeHttps false
C6_Witness ==
  /\ nlResult # None
  /\ ~nlAssume
  /\ Len(nlRaw) > 0
  /\ nlRaw[1] = " "
  /\ TrimmedLine = <<"/", "/", "a">>

(***************************************************************************)
(* Specification of topEntries: applied to every counter map of at most    *)
(* MaxKeys keys of TopKeys with counts up to MaxCount, built by inc in     *)
(* every order, and to every limit up to MaxLimit.                         *)
(***************************************************************************)
MaxKeys == 3

MaxCount == 2

MaxLimit == 4

TopKeys == { <<"b">>, <<"a">>, <<"2">>, <<"1", "0">> }

\* the maps inc builds: distinct keys in creation order, counts of 1 or more
CounterMaps ==
  UNION { { m \in [1..n -> [key : TopKeys, val : { NumberValue(c) : c \in 1..MaxCount }]] :
              \A i, j \in 1..n : m[i].key = m[j].key => i = j } : n \in 0..MaxKeys }

InitTop ==
  /\ teMap \in CounterMaps
  /\ teLimit \in 0..MaxLimit
  /\ teResult = None
  /\ NoPipeline
  /\ NoEnvironment
  /\ NoNormalize
  /\ NoPage
  /\ NoChart

\* a call of topEntries(teMap, teLimit) that returns
TopEntries ==
  /\ teResult = None
  /\ teResult' = Some(topEntries(teMap, teLimit))
  /\ UNCHANGED <<teMap, teLimit, pipelineVars, normalizeVars, pageVars, chartVars>>

NextTop == TopEntries

SpecTop == InitTop /\ [][NextTop]_vars

Top == teResult[1]

Min(a, b) == IF a <= b THEN a ELSE b

\* the position at which a key was inserted into the map
InsertedAt(key) == CHOOSE i \in 1..Len(teMap) : teMap[i].key = key

\* the result is min(limit, number of keys) entries of the map, none
\* repeated, with counts that never increase, and no entry left out has a
\* greater count than one included
TopOfMap ==
  /\ Len(Top) = Min(teLimit, Len(teMap))
  /\ \A i \in 1..Len(Top) : \E j \in 1..Len(teMap) : teMap[j] = Top[i]
  /\ \A i, j \in 1..Len(Top) : Top[i].key = Top[j].key => i = j
  /\ \A i, j \in 1..Len(Top) : i < j => Top[i].val.n >= Top[j].val.n
  /\ \A j \in 1..Len(teMap) :
       (\A i \in 1..Len(Top) : Top[i] # teMap[j]) =>
         \A i \in 1..Len(Top) : teMap[j].val.n <= Top[i].val.n

\* an integer-like key: digits without a leading zero
IntegerLike(key) ==
  /\ Len(key) > 0
  /\ \A i \in 1..Len(key) : key[i] \in DigitSet
  /\ (key[1] = "0" => Len(key) = 1)

\* the order in which a JavaScript object iterates its keys: the
\* integer-like keys in ascending numeric order, then the others in
\* insertion order
IteratedBefore(a, b) ==
  IF IntegerLike(a) /\ IntegerLike(b)
    THEN Len(a) < Len(b) \/ (Len(a) = Len(b) /\ ToNumber(a) < ToNumber(b))
  ELSE IF IntegerLike(a) THEN TRUE
  ELSE IF IntegerLike(b) THEN FALSE
  ELSE InsertedAt(a) < InsertedAt(b)

\* C9 (as claimed): topEntries returns the min(limit, keys) greatest
\* entries with counts that never increase, and entries of equal count are
\* in the order in which their keys were inserted into the map
C9_TiesInInsertionOrder ==
  teResult # None =>
    /\ TopOfMap
    /\ \A i, j \in 1..Len(Top) :
         (i < j /\ Top[i].val.n = Top[j].val.n) =>
           InsertedAt(Top[i].key) < InsertedAt(Top[j].key)

\* C9 (amended): the same, with entries of equal count in the order in
\* which the map iterates its keys: integer-like keys in ascending numeric
\* order first, then the other keys in insertion order
C9_TiesInIterationOrder ==
  teResult # None =>
    /\ TopOfMap
    /\ \A i, j \in 1..Len(Top) :
         (i < j /\ Top[i].val.n = Top[j].val.n) =>
           IteratedBefore(Top[i].key, Top[j].key)

\* C9 witness: a result cut by the limit that holds two entries of equal
\* count, an integer-like key inserted after the other key
C9_Witness ==
  /\ teResult # None
  /\ teLimit < Len(teMap)
  /\ \E i, j \in 1..Len(Top) :
       /\ i < j
       /\ Top[i].val.n = Top[j].val.n
       /\ IntegerLike(Top[i].key)
       /\ InsertedAt(Top[i].key) > InsertedAt(Top[j].key)

(***************************************************************************)
(* The Home page: its state, the effect that loads the history persisted   *)
(* in localStorage, and its handlers.                                      *)
(*                                                                         *)
(* A JSON value is a record whose type field names its JSON type.  A       *)
(* value in memory is a JSON value that JSON.parse returned, or a report   *)
(* analyzeLinks built, [type |-> "object", fresh |-> report].  A stored    *)
(* item is absent, the empty string, or a text given by what JSON.parse    *)
(* makes of it (None when it throws).                                      *)
(***************************************************************************)
JsonNull == [type |-> "null"]

JsonNumber(n) == [type |-> "number", num |-> n]

JsonObject(o) == [type |-> "object", obj |-> o]

JsonArray(elems) == [type |-> "array", elems |-> elems]

Fresh(r) == [type |-> "object", fresh |-> r]

IsFresh(v) == "fresh" \in DOMAIN v

OptionalRowFields == {"error", "protocol", "hostname", "domain", "tld", "pathname"}

RequiredRowFields ==
  {"id", "raw", "normalized", "isValid", "queryParams", "hasHash", "length"}

\* JSON.stringify of a row: a property whose value is undefined is left out
JsonOfRow(row) ==
  [ f \in RequiredRowFields \cup { g \in OptionalRowFields : row[g] # None } |->
      IF f \in OptionalRowFields THEN row[f][1] ELSE row[f] ]

\* JSON.stringify of a report: the maps list their keys as Object.entries does
JsonOfReport(r) ==
  [r EXCEPT !.items = [ i \in 1..Len(r.items) |-> JsonOfRow(r.items[i]) ],
            !.distributions = [protocol |-> ObjectEntries(r.distributions.protocol),
                               domain |-> ObjectEntries(r.distributions.domain),
                               tld |-> ObjectEntries(r.distributions.tld)]]

\* the JSON value JSON.stringify writes for a value in memory
JsonOfValue(v) == IF IsFresh(v) THEN JsonObject(JsonOfReport(v.fresh)) ELSE v

\* JSON.stringify(merged), as a stored item
Stringify(values) ==
  [kind |-> "text",
   parse |-> Some(JsonArray([ i \in 1..Len(values) |-> JsonOfValue(values[i]) ]))]

\* x && typeof x === "object": objects and arrays, not null
IsObjectValue(v) == v.type \in {"object", "array"}

\* a value with the fields of a LinkAnalysis
IsReport(v) ==
  \/ IsFresh(v)
  \/ v.type = "object" /\ {"id", "createdAt", "input", "metrics"} \subseteq DOMAIN v.obj

\* v.input
InputOf(v) ==
  IF IsFresh(v) THEN Some(v.fresh.input)
  ELSE IF v.type = "object" /\ "input" \in DOMAIN v.obj THEN Some(v.obj.input)
  ELSE None

CreatedAtOf(v) == IF IsFresh(v) THEN v.fresh.createdAt ELSE v.obj.createdAt

\* rendering reads h.metrics.total of every entry of the history and the
\* metrics of the analysis shown: it throws on a value that has none
Renders(hist, shown) ==
  /\ \A i \in 1..Len(hist) : IsReport(hist[i])
  /\ (shown # None => IsReport(shown[1]))

HistoryLimit == 50

LoadLimit == 50

\* [next, ...prev] without the slice
Merged_NoSlice(next, prev) == <<next>> \o prev

\* [next, ...prev].slice(0, 50)
Merged(next, prev) == Take(<<next>> \o prev, HistoryLimit)

\* parsed.filter((x) => x && typeof x === "object").slice(0, 50)
Cleaned(parsed) == Take(SelectSeq(parsed, IsObjectValue), LoadLimit)

ExampleText ==
  <<"h","t","t","p","s",":","/","/","v","e","r","c","e","l",".","c","o","m","\n","n","e","x","t","j","s",".","o","r","g","/","d","o","c","s","\n","h","t","t","p",":","/","/","e","x","a","m","p","l","e",".","c","o","m","/","p","a","t","h","?","u","t","m","_","s","o","u","r","c","e","=","t","e","s","t","\n","w","w","w",".","g","o","o","g","l","e",".","c","o","m","/","s","e","a","r","c","h","?","q","=","e","c","h","a","r","t","s","\n","h","t","t","p","s",":","/","/","g","i","t","h","u","b",".","c","o","m","/","v","e","r","c","e","l","/","n","e","x","t",".","j","s","#","r","e","a","d","m","e","\n","n","o","t","a","-","u","r","l","\n","/","/","c","d","n",".","e","x","a","m","p","l","e",".","c","o","m","/","a","s","s","e","t","s","/","a","p","p",".","j","s","?","v","=","1">>

(***************************************************************************)
(* Specification of the page.  The item stored when the page mounts is one *)
(* of InitialStores; the user types one of PageTexts and clicks one of the *)
(* ClickedEntries of the history; at most MaxRuns analyses are run.        *)
(***************************************************************************)
MaxRuns == 2

PageTexts == { <<"a">> }

\* a report stored by an earlier session, the k-th most recent
OldReport(k, txt) ==
  JsonObject(JsonOfReport(
    analyzeLinksAt(txt, [assumeHttps |-> TRUE, dedupe |-> TRUE], 0 - 2 * k, 0 - k)))

OldReports(n) == [ k \in 1..n |-> OldReport(k, IF k = 1 THEN <<"a">> ELSE << >>) ]

NotAReport == JsonObject([version |-> 1])

InitialStores ==
  { [kind |-> "absent"],
    [kind |-> "empty"],
    [kind |-> "text", parse |-> None],
    [kind |-> "text", parse |-> Some(OldReport(1, <<"a">>))],
    [kind |-> "text", parse |-> Some(JsonArray(<< >>))],
    [kind |-> "text", parse |-> Some(JsonArray(
       <<JsonNumber(7), OldReport(1, <<"a">>), JsonNull, OldReport(2, << >>)>>))],
    [kind |-> "text", parse |-> Some(JsonArray(
       <<OldReport(1, << >>), OldReport(2, <<"a">>)>>))],
    [kind |-> "text", parse |-> Some(JsonArray(<<NotAReport, OldReport(1, <<"a">>)>>))],
    [kind |-> "text", parse |-> Some(JsonArray(<<JsonArray(<< >>)>>))],
    [kind |-> "text", parse |-> Some(JsonArray(<<JsonNull, NotAReport>>))],
    [kind |-> "text", parse |-> Some(JsonArray(OldReports(HistoryLimit - 1)))],
    [kind |-> "text", parse |-> Some(JsonArray(
       <<OldReport(1, <<"a">>), JsonNull>> \o Tail(OldReports(HistoryLimit + 1))))] }

InitPage ==
  /\ input = << >>
  /\ assumeHttps = TRUE
  /\ dedupe = TRUE
  /\ analysis = None
  /\ history = << >>
  /\ storage \in InitialStores
  /\ page = "mounted"
  /\ effect = "pending"
  /\ microtask = None
  /\ cancelled = FALSE
  /\ nextId = 1
  /\ clock = 0
  /\ NoPipeline
  /\ NoNormalize
  /\ NoTop
  /\ NoChart

otherVars == <<text, opts, report, normalizeVars, topVars, chartVars>>

\* the state after a render of the page with the history and the analysis
\* given: the page is gone when the render throws
AfterRender(hist, shown) == IF Renders(hist, shown) THEN "mounted" ELSE "crashed"

\* the body of the load effect, up to the microtask it queues
LoadEffect ==
  /\ page = "mounted"
  /\ effect = "pending"
  /\ IF storage.kind # "text"
       THEN effect' = "returned" /\ microtask' = None
     ELSE IF storage.parse = None
       THEN effect' = "registered" /\ microtask' = Some([kind |-> "reset"])
     ELSE IF storage.parse[1].type # "array"
       THEN effect' = "returned" /\ microtask' = None
     ELSE /\ effect' = "registered"
          /\ microtask' = Some([kind |-> "load",
                                cleaned |-> Cleaned(storage.parse[1].elems)])
  /\ UNCHANGED <<input, assumeHttps, dedupe, analysis, history, storage, page,
                 cancelled, nextId, clock, otherVars>>

\* the microtask the load effect queued
RunMicrotask ==
  /\ microtask # None
  /\ microtask' = None
  /\ IF cancelled
       THEN UNCHANGED <<input, analysis, history, page>>
     ELSE IF microtask[1].kind = "reset"
       THEN /\ history' = << >>
            /\ analysis' = None
            /\ UNCHANGED <<input, page>>
     ELSE LET cleaned == microtask[1].cleaned
              first == IF cleaned # << >> THEN InputOf(cleaned[1]) ELSE None
          IN /\ history' = cleaned
             /\ IF Truthy(first)
                  THEN input' = first[1] /\ analysis' = Some(cleaned[1])
                ELSE UNCHANGED <<input, analysis>>
             /\ page' = AfterRender(history', analysis')
  /\ UNCHANGED <<assumeHttps, dedupe, storage, effect, cancelled, nextId, clock,
                 otherVars>>

\* the page is unmounted: the cleanup of the load effect, when it returned one
Unmount ==
  /\ page = "mounted"
  /\ page' = "unmounted"
  /\ cancelled' = (effect = "registered")
  /\ UNCHANGED <<input, assumeHttps, dedupe, analysis, history, storage, effect,
                 microtask, nextId, clock, otherVars>>

\* a handler runs as a task of its own: after the load effect and after the
\* microtask the effect queued
Idle == page = "mounted" /\ effect # "pending" /\ microtask = None

\* onChange of the textarea
SetInput ==
  /\ Idle
  /\ \E t \in PageTexts : input' = t
  /\ UNCHANGED <<assumeHttps, dedupe, analysis, history, storage, page, effect,
                 microtask, cancelled, nextId, clock, otherVars>>

\* onChange of the two checkboxes
SetAssumeHttps ==
  /\ Idle
  /\ assumeHttps' = ~assumeHttps
  /\ UNCHANGED <<input, dedupe, analysis, history, storage, page, effect,
                 microtask, cancelled, nextId, clock, otherVars>>

SetDedupe ==
  /\ Idle
  /\ dedupe' = ~dedupe
  /\ UNCHANGED <<input, assumeHttps, analysis, history, storage, page, effect,
                 microtask, cancelled, nextId, clock, otherVars>>

loadExample ==
  /\ Idle
  /\ input' = ExampleText
  /\ UNCHANGED <<assumeHttps, dedupe, analysis, history, storage, page, effect,
                 microtask, cancelled, nextId, clock, otherVars>>

runAnalysis ==
  /\ Idle
  /\ clock < MaxRuns
  /\ analysis' = Some(Fresh(analyzeLinks(input, [assumeHttps |-> assumeHttps,
                                                   dedupe |-> dedupe])))
  /\ history' = Merged(analysis'[1], history)
  /\ storage' = Stringify(history')
  /\ nextId' = analysis'[1].fresh.id + 1
  /\ page' = AfterRender(history', analysis')
  /\ clock' = clock + 1
  /\ UNCHANGED <<input, assumeHttps, dedupe, effect, microtask, cancelled, otherVars>>

\* the button is disabled while the history is empty
clearHistory ==
  /\ Idle
  /\ history # << >>
  /\ history' = << >>
  /\ storage' = [kind |-> "absent"]
  /\ UNCHANGED <<input, assumeHttps, dedupe, analysis, page, effect, microtask,
                 cancelled, nextId, clock, otherVars>>

\* the entries of the history list that are clicked: the first two and the
\* last
ClickedEntries(hist) == {1, 2, Len(hist)} \cap (1..Len(hist))

\* onClick of an entry of the history list
SelectHistory ==
  /\ Idle
  /\ \E i \in ClickedEntries(history) :
       /\ input' = InputOf(history[i])[1]
       /\ analysis' = Some(history[i])
  /\ UNCHANGED <<assumeHttps, dedupe, history, storage, page, effect, microtask,
                 cancelled, nextId, clock, otherVars>>

\* onClick of the button that clears the input
ClearInput ==
  /\ Idle
  /\ input' = << >>
  /\ analysis' = None
  /\ UNCHANGED <<assumeHttps, dedupe, history, storage, page, effect, microtask,
                 cancelled, nextId, clock, otherVars>>

NextPage ==
  \/ LoadEffect
  \/ RunMicrotask
  \/ Unmount
  \/ SetInput
  \/ SetAssumeHttps
  \/ SetDedupe
  \/ loadExample
  \/ runAnalysis
  \/ clearHistory
  \/ SelectHistory
  \/ ClearInput

SpecPage == InitPage /\ [][NextPage]_vars

(***************************************************************************)
(* Properties of the page                                                  *)
(***************************************************************************)
\* the reports of a history, from the first to the last, were created from
\* the latest to the earliest
NewestFirst(hist) ==
  \A i, j \in 1..Len(hist) :
    i < j /\ IsReport(hist[i]) /\ IsReport(hist[j])
      => CreatedAtOf(hist[i]) >= CreatedAtOf(hist[j])

\* the step runs an analysis: new Date() is read
RunStep == clock' # clock

\* the history after the step: the report of the run, created now from the
\* input, then the reports of the history before it in their order, the
\* first 50 of them in all
RunPutsReportFirst ==
  /\ Len(history') = Min(Len(history) + 1, 50)
  /\ IsFresh(history'[1])
  /\ history'[1].fresh.createdAt = clock
  /\ history'[1].fresh.input = input
  /\ \A i \in 2..Len(history') : history'[i] = history[i - 1]

\* the item stored after the step is the JSON text of the history after it
RunPersistsHistory ==
  /\ storage'.kind = "text"
  /\ storage'.parse # None
  /\ storage'.parse[1].type = "array"
  /\ Len(storage'.parse[1].elems) = Len(history')
  /\ \A i \in 1..Len(history') :
       storage'.parse[1].elems[i] = JsonOfValue(history'[i])

\* C8: whatever the page has done (load from storage, run, clear history,
\* select an entry, clear the input), the history holds at most 50 reports,
\* the most recent first; a run puts its report first, keeps the earlier
\* ones in their order and drops only those beyond 50; and after a run the
\* stored item holds the sequence the history holds
C8_HistoryBoundedNewestFirstPersisted ==
  /\ [](Len(history) <= 50 /\ NewestFirst(history))
  /\ [][RunStep => RunPutsReportFirst /\ RunPersistsHistory]_vars

\* two runs on a loaded history of 49 reports: the two new reports come
\* first, the oldest loaded report is gone, and the store holds 50 entries
C8_Witness ==
  /\ clock = 2
  /\ Len(history) = 50
  /\ IsFresh(history[1]) /\ IsFresh(history[2]) /\ ~IsFresh(history[3])
  /\ CreatedAtOf(history[50]) = 0 - 48
  /\ storage.kind = "text"
  /\ Len(storage.parse[1].elems) = 50

\* a stored item that is not the JSON text of an array of objects: it does
\* not parse, or parses to something that is not an array, or to an array
\* with an element that is not an object (typeof takes an array for one)
MalformedStore(st) ==
  /\ st.kind = "text"
  /\ \/ st.parse = None
     \/ st.parse[1].type # "array"
     \/ \E i \in 1..Len(st.parse[1].elems) : ~IsObjectValue(st.parse[1].elems[i])

\* C11 (as claimed): while the stored item is malformed (not valid JSON, not
\* an array, or an array with an element that is not an object) the history
\* is empty, no analysis is shown and the page has not failed
C11_MalformedStoreIsEmptyHistory ==
  MalformedStore(storage) =>
    /\ history = << >>
    /\ analysis = None
    /\ page # "crashed"

(***************************************************************************)
(* The EChart component: its three effects, the asynchronous import of     *)
(* echarts that the init effect awaits, renders with a new option prop,    *)
(* resizes of the container and the unmount.  The effects of a commit run  *)
(* in order and to completion before anything else happens; the import     *)
(* resolves in a later task.  The option prop changes at most MaxChanges   *)
(* times and the container is resized at most MaxResizes times.            *)
(***************************************************************************)
MaxChanges == 2

MaxResizes == 2

ChartOptions == {"a", "b", "c"}

\* the effects of the first commit, in the order the component declares them
MountEffects == <<"init", "option", "resize">>

\* the effects of a commit in which only the option prop changed
UpdateEffects == <<"option">>

\* the chart echarts.init returns, after setOption(opt, { notMerge: true })
ChartWith(opt) == [option |-> opt, resizes |-> 0]

\* the component after its first render and commit: useRef(option)
InitChart ==
  /\ chartMounted = TRUE
  /\ option \in ChartOptions
  /\ optionRef = option
  /\ chartRef = None
  /\ disposed = FALSE
  /\ importing = "idle"
  /\ effects = MountEffects
  /\ observer = FALSE
  /\ resized = 0
  /\ changes = 0
  /\ NoPipeline
  /\ NoEnvironment
  /\ NoNormalize
  /\ NoTop
  /\ NoPage

notChartVars == <<pipelineVars, normalizeVars, topVars, pageVars>>

\* the first effect: init() up to its await
EChartInitEffect ==
  /\ chartMounted
  /\ effects # << >> /\ Head(effects) = "init"
  /\ effects' = Tail(effects)
  /\ disposed' = FALSE
  /\ importing' = IF chartRef # None THEN importing ELSE "pending"
  /\ UNCHANGED <<chartMounted, option, optionRef, chartRef, observer, resized,
                 changes, notChartVars>>

\* the second effect, on [option]
EChartOptionEffect ==
  /\ chartMounted
  /\ effects # << >> /\ Head(effects) = "option"
  /\ effects' = Tail(effects)
  /\ IF chartRef = None
       THEN UNCHANGED <<optionRef, chartRef>>
     ELSE /\ optionRef' = option
          /\ chartRef' = Some([chartRef[1] EXCEPT !.option = option])
  /\ UNCHANGED <<chartMounted, option, disposed, importing, observer, resized,
                 changes, notChartVars>>

\* the third effect: the ResizeObserver
EChartResizeEffect ==
  /\ chartMounted
  /\ effects # << >> /\ Head(effects) = "resize"
  /\ effects' = Tail(effects)
  /\ observer' = (chartRef # None)
  /\ UNCHANGED <<chartMounted, option, optionRef, chartRef, disposed, importing,
                 resized, changes, notChartVars>>

\* import("echarts") resolves: init() from its await to its end
EChartImported ==
  /\ importing = "pending"
  /\ effects = << >>
  /\ importing' = "resolved"
  /\ chartRef' = IF disposed THEN chartRef ELSE Some(ChartWith(optionRef))
  /\ UNCHANGED <<chartMounted, option, optionRef, disposed, effects, observer,
                 resized, changes, notChartVars>>

\* the parent renders the component with another option
EChartSetOption ==
  /\ chartMounted
  /\ effects = << >>
  /\ changes < MaxChanges
  /\ \E o \in ChartOptions \ {option} : option' = o
  /\ effects' = UpdateEffects
  /\ changes' = changes + 1
  /\ UNCHANGED <<chartMounted, optionRef, chartRef, disposed, importing,
                 observer, resized, notChartVars>>

\* the container is resized: the observer's callback, when one observes
EChartContainerResize ==
  /\ chartMounted
  /\ effects = << >>
  /\ resized < MaxResizes
  /\ resized' = resized + 1
  /\ chartRef' = IF observer /\ chartRef # None
                   THEN Some([chartRef[1] EXCEPT !.resizes = @ + 1])
                 ELSE chartRef
  /\ UNCHANGED <<chartMounted, option, optionRef, disposed, importing, effects,
                 observer, changes, notChartVars>>

\* the component unmounts: the cleanups of the effects
EChartUnmount ==
  /\ chartMounted
  /\ effects = << >>
  /\ chartMounted' = FALSE
  /\ disposed' = TRUE
  /\ chartRef' = None
  /\ observer' = FALSE
  /\ UNCHANGED <<option, optionRef, importing, effects, resized, changes,
                 notChartVars>>

NextChart ==
  \/ EChartInitEffect
  \/ EChartOptionEffect
  \/ EChartResizeEffect
  \/ EChartImported
  \/ EChartSetOption
  \/ EChartContainerResize
  \/ EChartUnmount

SpecChart == InitChart /\ [][NextChart]_vars

(***************************************************************************)
(* Properties of the EChart component                                      *)
(***************************************************************************)
\* a chart exists and no effect of the last commit remains to run
ChartSettled == chartRef # None /\ effects = << >>

\* C13 (as claimed): once the chart exists and no prop change is pending,
\* the option last set on the chart is the option prop of the last render,
\* also when the prop changed while the import was pending
C13_LatestOptionApplied ==
  ChartSettled => chartRef[1].option = option

\* C14 (as claimed): whenever a chart exists a resize observer observes the
\* container (so that a resize of the container reaches the chart), and
\* after the unmount there is no chart
C14_ObserverWhileChartAndNoChartAfterUnmount ==
  /\ (chartRef # None => observer)
  /\ (~chartMounted => chartRef = None)

====
